---- MODULE Spec2Model ----
(***************************************************************************)
(* The "winners" strategy of the zipline-intro notebooks: initialize        *)
(* schedules rebalance, before_trading_start selects the day's winners      *)
(* from the pipeline output, and rebalance computes the winners' intraday   *)
(* returns and decides which positions to exit and which to enter.          *)
(*                                                                          *)
(* Prices and returns are float64 values.  A value is a record              *)
(*   [kind, num, den]: kind "num" is the rational num/den (den > 0),        *)
(*   kind "nan" is NaN, kind "inf" is +infinity (num = 1) or -infinity      *)
(*   (num = -1).  Prices are whole ticks of 0.1, so 9.9 is Num(99).         *)
(***************************************************************************)
EXTENDS Integers, Sequences, FiniteSets

VARIABLES
  phase,             \* where the trading day stands
  scheduled,         \* whether initialize has scheduled rebalance
  pipeline_output,   \* before_trading_start: factors["1y_returns"], until the open
  winners,           \* context.winners
  todays_selection,  \* history: the winners before_trading_start selected today
  portfolio,         \* context.portfolio.positions: held assets, insertion order
  current_prices,    \* rebalance: data.current(context.winners, "price")
  prior_closes,      \* rebalance: data.history(...).iloc[0]
  intraday_returns,  \* rebalance: (current_prices - prior_closes) / prior_closes
  decisions,         \* the decisions of the last rebalance, in the order made
  outcome            \* how the last rebalance ended

vars == <<phase, scheduled, pipeline_output, winners, todays_selection, portfolio,
          current_prices, prior_closes, intraday_returns, decisions, outcome>>

\* ------------------------------------------------------------------ bounds

Ids == {"A", "B", "C", "D"}

\* 1y_returns values of the pipeline output are 0..MaxYearReturn, or NaN.
MaxYearReturn == 1

\* context.winners = returns.index[:3]
TopN == 3

\* ------------------------------------------------------------------ float64

Num(n) == [kind |-> "num", num |-> n, den |-> 1]

NaN == [kind |-> "nan", num |-> 0, den |-> 1]

PosInf == [kind |-> "inf", num |-> 1, den |-> 1]

NegInf == [kind |-> "inf", num |-> -1, den |-> 1]

Sign(n) == IF n > 0 THEN 1 ELSE IF n < 0 THEN -1 ELSE 0

Abs(n) == IF n < 0 THEN -n ELSE n

IsNaN(x) == x.kind = "nan"

IsZero(x) == x.kind = "num" /\ x.num = 0

\* A mutant of FloatSub: a missing operand counts as 0 (fill_value=0).
FloatSubFillNa(x, y) ==
  LET a == IF x.kind = "num" THEN x ELSE Num(0)
      b == IF y.kind = "num" THEN y ELSE Num(0)
  IN [kind |-> "num", num |-> a.num * b.den - b.num * a.den, den |-> a.den * b.den]

\* x - y on float64 (elementwise on the two Series).
FloatSub(x, y) ==
  IF IsNaN(x) \/ IsNaN(y) THEN NaN
  ELSE IF x.kind = "inf" /\ y.kind = "inf"
    THEN (IF x.num = y.num THEN NaN ELSE x)
  ELSE IF x.kind = "inf" THEN x
  ELSE IF y.kind = "inf" THEN (IF y.num > 0 THEN NegInf ELSE PosInf)
  ELSE [kind |-> "num", num |-> x.num * y.den - y.num * x.den, den |-> x.den * y.den]

\* A mutant of FloatDiv: a zero or missing divisor yields 0 instead of inf / NaN.
FloatDivZeroFill(x, y) ==
  IF IsNaN(x) \/ IsNaN(y) \/ IsZero(y) THEN Num(0)
  ELSE IF x.kind = "inf" \/ y.kind = "inf" THEN NaN
  ELSE [kind |-> "num", num |-> x.num * y.den * Sign(y.num), den |-> x.den * Abs(y.num)]

\* x / y on float64: no exception; a zero divisor gives +-inf, 0/0 gives NaN.
FloatDiv(x, y) ==
  IF IsNaN(x) \/ IsNaN(y) THEN NaN
  ELSE IF x.kind = "inf" /\ y.kind = "inf" THEN NaN
  ELSE IF x.kind = "inf"
    THEN (IF Sign(y.num) * x.num >= 0 THEN PosInf ELSE NegInf)
  ELSE IF y.kind = "inf" THEN Num(0)
  ELSE IF y.num = 0
    THEN (IF x.num = 0 THEN NaN ELSE IF x.num > 0 THEN PosInf ELSE NegInf)
  ELSE [kind |-> "num", num |-> x.num * y.den * Sign(y.num), den |-> x.den * Abs(y.num)]

\* x < 0 on float64: False for NaN.
FloatLtZero(x) == x.kind # "nan" /\ x.num < 0

\* x > y on float64: False when either is NaN.
FloatGt(x, y) ==
  /\ ~IsNaN(x) /\ ~IsNaN(y)
  /\ IF x.kind = "inf" THEN x.num > 0 /\ x # y
     ELSE IF y.kind = "inf" THEN y.num < 0
     ELSE x.num * y.den > y.num * x.den

\* ------------------------------------------------------------------ helpers

Range(s) == {s[i] : i \in 1..Len(s)}

Min(a, b) == IF a < b THEN a ELSE b

\* The orderings of a finite set.
Orderings(S) ==
  {s \in [1..Cardinality(S) -> S] : \A i, j \in 1..Cardinality(S) : i # j => s[i] # s[j]}

RECURSIVE SelectSeq2(_, _)
\* The subsequence of s of the elements in S.
SelectSeq2(s, S) ==
  IF s = <<>> THEN <<>>
  ELSE (IF Head(s) \in S THEN <<Head(s)>> ELSE <<>>) \o SelectSeq2(Tail(s), S)

\* ------------------------------------------------------------------ inputs

\* context.winners before the first before_trading_start: no such attribute.
Unset == <<"unset">>

\* The 1y_returns values a pipeline output can hold.
YearReturns == {Num(n) : n \in 0..MaxYearReturn} \cup {NaN}

\* The pipeline outputs of a day: the screened assets with their 1y_returns.
PipelineOutputs == UNION {[S -> YearReturns] : S \in SUBSET Ids}

\* The (current price, prior close) pairs the data object can return for an
\* asset: down, up and flat for the day, a zero prior close, and a missing
\* (NaN) current price or prior close.
Quotes ==
  { <<Num(99), Num(100)>>, <<Num(101), Num(100)>>, <<Num(50), Num(50)>>,
    <<Num(50), Num(0)>>, <<Num(0), Num(0)>>,
    <<NaN, Num(100)>>, <<Num(100), NaN>> }

NoPrices == [a \in {} |-> NaN]

\* ------------------------------------------------------------------ before_trading_start

\* sort_values(ascending=False): x sorts strictly before y when x > y, and
\* NaN sorts last.  Equal values come out in either order.
SortsBefore(x, y) == (~IsNaN(x) /\ IsNaN(y)) \/ FloatGt(x, y)

\* A mutant of SortedIndex: the ascending sort.
SortedIndexAscending(f) ==
  {s \in Orderings(DOMAIN f) :
     \A i, j \in 1..Len(s) : i < j =>
        ~((~IsNaN(f[s[j]]) /\ IsNaN(f[s[i]])) \/ FloatGt(f[s[i]], f[s[j]]))}

\* factors["1y_returns"].sort_values(ascending=False).index: the orders the
\* sort can produce.
SortedIndex(f) ==
  {s \in Orderings(DOMAIN f) :
     \A i, j \in 1..Len(s) : i < j => ~SortsBefore(f[s[j]], f[s[i]])}

\* returns.index[:3]
TopOfIndex(s) == SubSeq(s, 1, Min(TopN, Len(s)))

\* A mutant of StoreWinners: winners are set once and then kept.
StoreWinnersOnce(old, sel) == IF old = Unset THEN sel ELSE old

\* context.winners = ...
StoreWinners(old, sel) == sel

BeforeTradingStart ==
  /\ phase = "premarket"
  /\ \E f \in PipelineOutputs : \E s \in SortedIndex(f) :
       /\ pipeline_output' = f
       /\ todays_selection' = TopOfIndex(s)
       /\ winners' = StoreWinners(winners, TopOfIndex(s))
  /\ phase' = "before_open"
  /\ UNCHANGED <<scheduled, portfolio, current_prices, prior_closes,
                 intraday_returns, decisions, outcome>>

\* The market opens: before_trading_start has returned and its pipeline output
\* is no longer held.
MarketOpen ==
  /\ phase = "before_open"
  /\ phase' = "open"
  /\ pipeline_output' = NoPrices
  /\ UNCHANGED <<scheduled, winners, todays_selection, portfolio, current_prices,
                 prior_closes, intraday_returns, decisions, outcome>>

\* ------------------------------------------------------------------ initialize

Initialize ==
  /\ phase = "new"
  /\ scheduled' = TRUE
  /\ phase' = "premarket"
  /\ UNCHANGED <<pipeline_output, winners, todays_selection, portfolio,
                 current_prices, prior_closes, intraday_returns, decisions, outcome>>

\* ------------------------------------------------------------------ rebalance

\* A mutant of IntradayReturns: the operands of the subtraction swapped.
IntradayReturnsSwapped(cur, prior) ==
  [a \in DOMAIN cur |-> FloatDiv(FloatSub(prior[a], cur[a]), prior[a])]

\* (current_prices - prior_closes) / prior_closes
IntradayReturns(cur, prior) ==
  [a \in DOMAIN cur |-> FloatDiv(FloatSub(cur[a], prior[a]), prior[a])]

\* A mutant of positions: the portfolio is not read.
positions_unread == <<>>

\* positions = context.portfolio.positions
positions == portfolio

\* A mutant of PositionItems: the first position is skipped.
PositionItemsSkipFirst(pos) == IF pos = <<>> THEN <<>> ELSE Tail(pos)

\* A mutant of PositionItems: the positions in reverse order.
PositionItemsReversed(pos) == [i \in 1..Len(pos) |-> pos[Len(pos) + 1 - i]]

\* for asset, position in positions.items(): the assets in dict order
PositionItems(pos) == pos

Decision(action, asset) == [action |-> action, asset |-> asset]

RECURSIVE ExitDecisions(_, _)
\* Exit positions we no longer want to hold: an Exit for every held asset
\* that is no winner.
ExitDecisions(items, ws) ==
  IF items = <<>> THEN <<>>
  ELSE (IF Head(items) \notin Range(ws) THEN <<Decision("Exit", Head(items))>> ELSE <<>>)
       \o ExitDecisions(Tail(items), ws)

RECURSIVE EntryDecisions(_, _, _)
\* For every winner in rank order: Enter when it is down for the day and not
\* held, Hold otherwise.
EntryDecisions(ws, pos, rets) ==
  IF ws = <<>> THEN <<>>
  ELSE <<Decision(IF FloatLtZero(rets[Head(ws)]) /\ Head(ws) \notin Range(pos)
                  THEN "Enter" ELSE "Hold", Head(ws))>>
       \o EntryDecisions(Tail(ws), pos, rets)

Rebalance ==
  /\ phase = "open"
  /\ scheduled
  /\ winners # Unset
  /\ \E q \in [Range(winners) -> Quotes] :
       LET cur == [a \in Range(winners) |-> q[a][1]]
           prior == [a \in Range(winners) |-> q[a][2]]
           rets == IntradayReturns(cur, prior)
       IN /\ current_prices' = cur
          /\ prior_closes' = prior
          /\ intraday_returns' = rets
          /\ decisions' = ExitDecisions(PositionItems(positions), winners)
                            \o EntryDecisions(winners, positions, rets)
  /\ outcome' = "ok"
  /\ phase' = "closed"
  /\ UNCHANGED <<scheduled, pipeline_output, winners, todays_selection, portfolio>>

\* ------------------------------------------------------------------ the platform

\* The assets of the decisions with the given action, in decision order.
Assets(ds, action) ==
  LET sel == SelectSeq(ds, LAMBDA d : d.action = action)
  IN [i \in 1..Len(sel) |-> sel[i].asset]

\* The platform fills the day's orders and the day ends: an exited position
\* leaves the portfolio, an entered one is added after the others.
EndOfDay ==
  /\ phase = "closed"
  /\ portfolio' = SelectSeq2(portfolio, Ids \ Range(Assets(decisions, "Exit")))
                    \o Assets(decisions, "Enter")
  /\ phase' = "premarket"
  /\ todays_selection' = Unset
  /\ current_prices' = NoPrices
  /\ prior_closes' = NoPrices
  /\ intraday_returns' = NoPrices
  /\ decisions' = <<>>
  /\ outcome' = "none"
  /\ UNCHANGED <<scheduled, winners, pipeline_output>>

\* ------------------------------------------------------------------ specification

Init ==
  /\ phase = "new"
  /\ scheduled = FALSE
  /\ pipeline_output = NoPrices
  /\ winners = Unset
  /\ todays_selection = Unset
  /\ portfolio = <<>>
  /\ current_prices = NoPrices
  /\ prior_closes = NoPrices
  /\ intraday_returns = NoPrices
  /\ decisions = <<>>
  /\ outcome = "none"

Next == Initialize \/ BeforeTradingStart \/ MarketOpen \/ Rebalance \/ EndOfDay

Spec == Init /\ [][Next]_vars

\* ------------------------------------------------------------------ claims

\* The decisions of the last rebalance that are about asset id.
DecisionsFor(id) == SelectSeq(decisions, LAMBDA d : d.asset = id)

Issued(action, id) == \E i \in 1..Len(decisions) : decisions[i] = Decision(action, id)

Candidates == Range(winners)

Held == Range(portfolio)

\* (prices_now[id] - prices_prior_close[id]) / prices_prior_close[id] < 0, in
\* exact arithmetic on the two prices rebalance read.
DownForTheDay(id) ==
  /\ id \in DOMAIN current_prices
  /\ current_prices[id].kind = "num" /\ prior_closes[id].kind = "num"
  /\ LET c == current_prices[id]
         p == prior_closes[id]
     IN \/ p.num > 0 /\ c.num * p.den < p.num * c.den
        \/ p.num < 0 /\ c.num * p.den > p.num * c.den

\* prices_now or prices_prior_close has no entry for id.
LacksPrice(id) ==
  \/ id \notin DOMAIN current_prices
  \/ id \notin DOMAIN prior_closes
  \/ IsNaN(current_prices[id])
  \/ IsNaN(prior_closes[id])

\* C1: after a rebalance, Enter is issued for an identifier exactly when it is a
\* winner, is not held, and its intraday return is strictly below 0.
C1_EnterIffDownUnheldWinner ==
  phase = "closed" =>
    \A id \in Ids :
      Issued("Enter", id) <=> (id \in Candidates /\ id \notin Held /\ DownForTheDay(id))

\* C1 witness: one rebalance enters a winner, leaves a held winner that is down
\* alone, and leaves an unheld winner that is flat for the day alone.
C1_Witness ==
  /\ phase = "closed"
  /\ \E a, b, c \in Candidates :
       /\ Issued("Enter", a)
       /\ b \in Held /\ DownForTheDay(b) /\ ~Issued("Enter", b)
       /\ c \notin Held /\ current_prices[c] = prior_closes[c]
       /\ current_prices[c] = Num(50) /\ ~Issued("Enter", c)

\* C2: after a rebalance, every held identifier that is no winner has exactly one
\* decision, an Exit; Exit is issued for no other identifier; with no winners the
\* decisions are exactly one Exit per held identifier.
C2_ExitIffHeldNonWinner ==
  phase = "closed" =>
    /\ \A id \in Held \ Candidates : DecisionsFor(id) = <<Decision("Exit", id)>>
    /\ \A id \in Ids : Issued("Exit", id) => id \in Held \ Candidates
    /\ winners = <<>> => decisions = [i \in 1..Len(portfolio) |-> Decision("Exit", portfolio[i])]

\* C2 witness: a rebalance with no winners and two held identifiers.
C2_Witness ==
  /\ phase = "closed"
  /\ winners = <<>>
  /\ Len(portfolio) = 2
  /\ Len(decisions) = 2

ExampleInput ==
  /\ winners = <<"A", "B", "C">>
  /\ portfolio = <<"D">>
  /\ DOMAIN current_prices = {"A", "B", "C"}
  /\ current_prices["A"] = Num(99) /\ prior_closes["A"] = Num(100)
  /\ current_prices["B"] = Num(101) /\ prior_closes["B"] = Num(100)
  /\ current_prices["C"] = Num(50) /\ prior_closes["C"] = Num(50)

ExampleOutput ==
  <<Decision("Exit", "D"), Decision("Enter", "A"), Decision("Hold", "B"),
    Decision("Hold", "C")>>

\* C5: on the example input (winners A, B, C; D held; A 9.9 against 10.0, B 10.1
\* against 10.0, C 5.0 against 5.0; no current price for D) rebalance succeeds
\* with exactly Exit(D), Enter(A), Hold(B), Hold(C).
C5_Example ==
  (phase = "closed" /\ ExampleInput) => (outcome = "ok" /\ decisions = ExampleOutput)

\* C5 witness: the rebalance of the example has run.
C5_Witness == phase = "closed" /\ ExampleInput /\ Len(decisions) = 4

\* C6: in the decisions of a rebalance every Exit precedes every Enter, the
\* Exits are in the order of the positions and the Enters in winner rank order.
C6_ExitsFirstInOrder ==
  phase = "closed" =>
    /\ \A i, j \in 1..Len(decisions) :
         (decisions[i].action = "Exit" /\ decisions[j].action = "Enter") => i < j
    /\ Assets(decisions, "Exit") = SelectSeq2(portfolio, Ids \ Candidates)
    /\ Assets(decisions, "Enter")
         = SelectSeq2(winners, Range(Assets(decisions, "Enter")))

\* C6 witness: a rebalance with two Exits and two Enters.
C6_Witness ==
  /\ phase = "closed"
  /\ Len(Assets(decisions, "Exit")) = 2
  /\ Len(Assets(decisions, "Enter")) = 2

\* C8: a winner that is held receives Hold whatever its intraday return, and
\* every winner receives exactly one decision, an Enter or a Hold.
C8_HeldWinnerHolds ==
  phase = "closed" =>
    \A id \in Candidates :
      /\ Len(DecisionsFor(id)) = 1
      /\ DecisionsFor(id)[1].action \in {"Enter", "Hold"}
      /\ id \in Held => DecisionsFor(id) = <<Decision("Hold", id)>>

\* C8 witness: a rebalance with a held winner whose intraday return is below 0.
C8_Witness ==
  /\ phase = "closed"
  /\ \E id \in Candidates \cap Held :
       DownForTheDay(id) /\ Issued("Hold", id)

\* C9: from before_trading_start to the end of the day's rebalance,
\* context.winners is set and is the value before_trading_start wrote that day;
\* rebalance read its prices for exactly those winners.
C9_WinnersOfTheDay ==
  /\ phase \in {"before_open", "open", "closed"} =>
       (winners # Unset /\ todays_selection # Unset /\ winners = todays_selection)
  /\ phase = "closed" => DOMAIN current_prices = Range(todays_selection)

\* C9 witness: a rebalance on a later day, whose winners share nothing with the
\* positions entered on earlier days.
C9_Witness ==
  /\ phase = "closed"
  /\ portfolio # <<>>
  /\ winners # <<>>
  /\ Held \cap Candidates = {}

====
